---- MODULE Spec2Model ----
(***************************************************************************)
(* Limits monitor of Marzban: the rule evaluator of                        *)
(* app/db/crud_limits.py (check_user_limits) and the background monitor    *)
(* of app/jobs/limits_monitor.py (LimitsMonitor).                          *)
(*                                                                         *)
(* Reading of crud_limits.py lines 207-225.  Line 209 (the assignment of   *)
(* `percentage`) follows the `if current_value >= limit_value:` header and *)
(* its comment and is the first statement of that branch; the else branch  *)
(* (line 221) reads `percentage` without assigning it.  `percentage` is a  *)
(* local of the function: read before any assignment it raises             *)
(* UnboundLocalError, read after an earlier rule of the same call was      *)
(* exceeded it still holds that rule's value.                              *)
(*                                                                         *)
(* Numbers.  A percentage is kept as the exact fraction num/den (already   *)
(* multiplied by 100); notification_threshold is kept in hundredths        *)
(* (0.8 is 80), so `percentage >= notification_threshold * 100` is         *)
(* num >= notification_threshold * den.                                    *)
(***************************************************************************)
EXTENDS Integers, Sequences, FiniteSets, TLC

VARIABLES
    rules,       \* table user_limits, in id order
    subs,        \* table limit_notifications, in id order
    accounts,    \* per username: the status of the user row and its xray sessions
    violations,  \* table limit_violations, in id order
    running,     \* LimitsMonitor.running
    active,      \* the task the event loop is executing, or "none"
    task,        \* per start() call: its position and locals
    effects,     \* history: <<what, username, limit_type>> of every side effect
    evalOut,     \* outcome of the last direct call of check_user_limits
    opOut        \* the last store operation or API call: its name and how it ended

vars == <<rules, subs, accounts, violations, running, active, task, effects, evalOut, opOut>>

monitorVars == <<subs, accounts, violations, running, active, task, effects>>

----------------------------------------------------------------------------
(* Bounds and finite universes *)

MaxUsage == 3        \* usage values range over 0..MaxUsage
MaxRules == 2        \* rows of user_limits when the evaluator is called directly
MaxViolations == 2   \* rows of limit_violations written in one behaviour
MaxStat == 2         \* the xray statistic `uptime` ranges over 0..MaxStat
TickSeconds == 150   \* the length of one tick of the clock, in seconds

check_interval == 300   \* self.check_interval, seconds
error_interval == 60    \* the argument of asyncio.sleep in the except of start

Users == {"u1", "u2"}

\* the two kinds get_current_usage reads from the same statistic
LimitTypes == {"data_limit", "time_limit"}

LimitActions == {"notify", "disable", "throttle", "delete"}

NotificationTypes == {"email", "webhook"}

Loops == {"t1", "t2"}

None == "none"

----------------------------------------------------------------------------
(* Rows *)

UserLimit(u, t, v, a, e, n) ==
    [username |-> u, limit_type |-> t, limit_value |-> v, action |-> a,
     enabled |-> e, notification_threshold |-> n]

LimitValues == {0, 2}

NotificationThresholds == {50, 80}

EvalActions == {"notify", "disable"}

UserLimitRows ==
    { UserLimit(u, t, v, a, e, n) :
        u \in Users, t \in LimitTypes, v \in LimitValues, a \in EvalActions,
        e \in BOOLEAN, n \in NotificationThresholds }

\* UniqueConstraint('username', 'limit_type') of the migration
UniqueUserLimit(rs) ==
    \A i, j \in 1..Len(rs) :
        (rs[i].username = rs[j].username /\ rs[i].limit_type = rs[j].limit_type)
            => i = j

\* get_user_limits: every row of the user, enabled or not, in id order
get_user_limits(rs, username) ==
    SelectSeq(rs, LAMBDA r : r.username = username)

----------------------------------------------------------------------------
(* check_user_limits of crud_limits.py *)

Unbound == [num |-> 0, den |-> 0]

IsBound(p) == p.den > 0

\* (current_value / limit_value) * 100 if limit_value > 0 else 0
Percentage(current_value, limit_value) ==
    IF limit_value > 0
    THEN [num |-> current_value * 100, den |-> limit_value]
    ELSE [num |-> 0, den |-> 1]

SamePercentage(p, q) == IsBound(p) /\ IsBound(q) /\ p.num * q.den = q.num * p.den

\* percentage >= (limit.notification_threshold * 100)
AtLeastThreshold(p, notification_threshold) == p.num >= notification_threshold * p.den

\* current_usage.get(limit_type, 0)
UsageGet(current_usage, limit_type) ==
    IF limit_type \in DOMAIN current_usage THEN current_usage[limit_type] ELSE 0

\* results[limit_type] = entry: a dict keeps the position of a key it holds
DictSet(d, k, e) ==
    IF \E i \in 1..Len(d) : d[i].limit_type = k
    THEN [i \in 1..Len(d) |-> IF d[i].limit_type = k THEN [limit_type |-> k, entry |-> e] ELSE d[i]]
    ELSE Append(d, [limit_type |-> k, entry |-> e])

DictHas(d, k) == \E i \in 1..Len(d) : d[i].limit_type = k

DictGet(d, k) == (CHOOSE x \in {d[i] : i \in 1..Len(d)} : x.limit_type = k).entry

\* lines 207-217
ExceededEntry(limit, p) ==
    [exceeded |-> TRUE, percentage |-> p, action |-> limit.action,
     threshold |-> limit.notification_threshold,
     should_notify |-> AtLeastThreshold(p, limit.notification_threshold)]

\* lines 218-225
NotExceededEntry(limit, p) ==
    [exceeded |-> FALSE, percentage |-> p, action |-> None,
     threshold |-> limit.notification_threshold,
     should_notify |-> FALSE]

\* current_value >= limit_value (line 207)
LimitReached(current_value, limit_value) == current_value >= limit_value

\* the enabled test left out: every row is evaluated
SkippedNever(limit) == FALSE

\* if not limit.enabled: continue (lines 200-201)
Skipped(limit) == ~limit.enabled

\* the loop of lines 199-225 over the rows `ls`, with the local `percentage`
\* and the dict `results` carried from one row to the next
RECURSIVE CheckLoop(_, _, _, _)
CheckLoop(ls, current_usage, percentage, results) ==
    IF ls = <<>> THEN [raised |-> FALSE, results |-> results]
    ELSE LET limit == Head(ls)
             current_value == UsageGet(current_usage, limit.limit_type)
         IN  IF Skipped(limit)
             THEN CheckLoop(Tail(ls), current_usage, percentage, results)
             ELSE IF LimitReached(current_value, limit.limit_value)
             THEN LET p == Percentage(current_value, limit.limit_value)
                  IN  CheckLoop(Tail(ls), current_usage, p,
                                DictSet(results, limit.limit_type, ExceededEntry(limit, p)))
             ELSE IF ~IsBound(percentage)
             THEN [raised |-> TRUE, results |-> <<>>]    \* UnboundLocalError
             ELSE CheckLoop(Tail(ls), current_usage, percentage,
                            DictSet(results, limit.limit_type, NotExceededEntry(limit, percentage)))

check_user_limits(rs, username, current_usage) ==
    CheckLoop(get_user_limits(rs, username), current_usage, Unbound, <<>>)

----------------------------------------------------------------------------
(* Direct calls of the evaluator: the store holds any admissible rule set, *)
(* the caller passes any username and any usage mapping.                   *)

RuleSets ==
    UNION { { rs \in [1..n -> UserLimitRows] : UniqueUserLimit(rs) } : n \in 0..MaxRules }

UsageMaps ==
    UNION { [D -> 0..MaxUsage] : D \in SUBSET LimitTypes }

NoOutcome == [raised |-> FALSE, results |-> <<>>]

\* no store operation or API call yet
NoOp == [op |-> None, args |-> <<>>, ret |-> None, raised |-> FALSE]

NotCalled ==
    [called |-> FALSE, username |-> None, current_usage |-> <<>>, out |-> NoOutcome]

NoEntry ==
    [exceeded |-> FALSE, percentage |-> Unbound, action |-> None, threshold |-> 0,
     should_notify |-> FALSE]

NoItem == [limit_type |-> None, entry |-> NoEntry]

NoNotification ==
    [id |-> 0, username |-> None, limit_type |-> None, notification_type |-> None,
     enabled |-> FALSE]

\* a user row with status active and sessions in xray
ActiveAccount == [status |-> "active", sessions |-> TRUE]

\* a start() call that has not begun: no position, no locals
IdleTask ==
    [pc |-> "idle",
     planned |-> <<>>,    \* users_with_limits of the sweep
     queue |-> <<>>,      \* users the for loop of check_all_users has not reached
     visited |-> {},      \* users the for loop has finished with in this sweep
     failed |-> {},       \* users whose processing raised in this sweep
     cur |-> None,        \* user
     fetch |-> None,      \* how get_current_usage ended: "ok", "empty", "error"
     usage |-> <<>>,      \* current_usage
     results |-> <<>>,    \* limit_checks
     checks |-> <<>>,     \* items of limit_checks the for loop has not reached
     item |-> NoItem,     \* limit_type, check_result
     mode |-> None,       \* "violation" or "warning": which dispatch is iterating
     nq |-> <<>>,         \* notifications the for loop has not reached
     hist |-> <<>>,       \* what the handling of `item` has done so far, in order
     enforced |-> None,   \* how the action method of `item` ended: "done", "error"
     sent |-> <<>>,       \* the sends of the dispatch for `item`: id, channel, ok
     posting |-> NoNotification,   \* the subscription whose webhook post is in flight
     done |-> <<>>,       \* the handlings completed for `cur`: limit_type and hist
     exc |-> FALSE,       \* an exception reached the except of check_all_users
     delay |-> 0,         \* the argument of the asyncio.sleep the task is in
     timer |-> 0]         \* ticks until that asyncio.sleep returns

EvalInit ==
    /\ rules \in RuleSets
    /\ subs = <<>>
    /\ accounts = [u \in Users |-> ActiveAccount]
    /\ violations = <<>>
    /\ running = FALSE
    /\ active = None
    /\ task = [l \in Loops |-> IdleTask]
    /\ effects = {}
    /\ evalOut = NotCalled
    /\ opOut = NoOp

\* the names the module api/limits.py binds with `async def` after its
\* imports: each def rebinds the name, also where line 16-25 imported it
ApiRouteNames ==
    {"get_limit_templates", "create_limit_template", "get_user_limits",
     "set_user_limits", "get_user_violations", "check_user_limits",
     "apply_template_to_user", "get_limits_stats", "initialize_templates",
     "delete_user_limit"}

\* get_db_user: the user row of the name, if there is one
get_db_user(username) == username \in Users

\* the route check_user_limits of api/limits.py, lines 113-127: 404 for an
\* unknown user; else line 126 calls what the name check_user_limits is
\* bound to, the route itself, and returns the coroutine object the call
\* makes, which is neither awaited nor a mapping
api_check_user_limits(rs, username, current_usage) ==
    IF ~get_db_user(username)
    THEN [ret |-> "http_404", raised |-> FALSE]
    ELSE IF "check_user_limits" \in ApiRouteNames
    THEN [ret |-> "coroutine", raised |-> FALSE]
    ELSE IF check_user_limits(rs, username, current_usage).raised
    THEN [ret |-> None, raised |-> TRUE]
    ELSE [ret |-> "mapping", raised |-> FALSE]

ApiCheckUser ==
    /\ ~evalOut.called
    /\ opOut = NoOp
    /\ \E username \in Users \cup {"nobody"}, current_usage \in UsageMaps :
          LET out == api_check_user_limits(rules, username, current_usage)
          IN  opOut' = [op |-> "check_user_limits", args |-> <<>>, ret |-> out.ret,
                         raised |-> out.raised]
    /\ UNCHANGED <<rules, monitorVars, evalOut>>

CheckUser ==
    /\ ~evalOut.called
    /\ opOut = NoOp
    /\ \E username \in Users, current_usage \in UsageMaps :
          /\ evalOut' = [called |-> TRUE, username |-> username,
                          current_usage |-> current_usage,
                          out |-> check_user_limits(rules, username, current_usage)]
          /\ UNCHANGED <<rules, monitorVars, opOut>>

EvalNext == CheckUser \/ ApiCheckUser

EvalSpec == EvalInit /\ [][EvalNext]_vars

----------------------------------------------------------------------------
(* The store as the monitor reads and writes it *)

LimitNotification(i, u, t, c, e) ==
    [id |-> i, username |-> u, limit_type |-> t, notification_type |-> c, enabled |-> e]

LimitViolation(u, t, cv, lv, a) ==
    [username |-> u, limit_type |-> t, current_value |-> cv, limit_value |-> lv,
     action_taken |-> a, resolved |-> FALSE]

UserOrder == <<"u1", "u2">>

HasEnabledRule(rs, u) ==
    \E i \in 1..Len(rs) : rs[i].username = u /\ rs[i].enabled

\* crud.get_users_with_limits: the users with at least one enabled rule
get_users_with_limits(rs) ==
    SelectSeq(UserOrder, LAMBDA u : HasEnabledRule(rs, u))

\* crud.get_limit_notifications: the subscriptions of (username, limit_type)
get_limit_notifications(ns, username, limit_type) ==
    SelectSeq(ns, LAMBDA n : n.username = username /\ n.limit_type = limit_type)

\* create_limit_violation, lines 82-104 of crud_limits.py
create_limit_violation(vs, username, limit_type, current_value, limit_value, action_taken) ==
    Append(vs, LimitViolation(username, limit_type, current_value, limit_value, action_taken))

\* check_result.get('limit_value', 0): check_user_limits sets no such key
CheckResultLimitValue(check_result) == 0

----------------------------------------------------------------------------
(* LimitsMonitor.  The event loop runs one task at a time; a task gives   *)
(* up the loop only where it awaits something that suspends: the two      *)
(* asyncio.sleep calls of start and the session.post of send_webhook.     *)

T(l) == task[l]

At(l, pc) == active = l /\ task[l].pc = pc

Parked(l, pc) == active = None /\ task[l].pc = pc

Goto(l, r) == task' = [task EXCEPT ![l] = r]

\* start, lines 30-34: a second call on a running monitor returns at once
start(l) ==
    /\ Parked(l, "idle")
    /\ IF running
       THEN UNCHANGED vars
       ELSE /\ running' = TRUE
            /\ active' = l
            /\ Goto(l, [IdleTask EXCEPT !.pc = "top"])
            /\ UNCHANGED <<rules, subs, accounts, violations, effects, evalOut, opOut>>

\* stop, lines 44-47
stop ==
    /\ active = None
    /\ running' = FALSE
    /\ UNCHANGED <<rules, subs, accounts, violations, active, task, effects, evalOut, opOut>>

\* while self.running, line 36
loop_top(l) ==
    /\ At(l, "top")
    /\ IF running
       THEN /\ Goto(l, [IdleTask EXCEPT !.pc = "query"])
            /\ UNCHANGED active
       ELSE /\ Goto(l, IdleTask)
            /\ active' = None
    /\ UNCHANGED <<rules, subs, accounts, violations, running, effects, evalOut, opOut>>

\* the except of start left out: the exception ends the loop
SweepRaisesEnds(l) ==
    Goto(l, IdleTask)

\* an exception leaves check_all_users and reaches the except of start, line 40
SweepRaises(l) ==
    Goto(l, [T(l) EXCEPT !.pc = "sweep_error"])

\* check_all_users, lines 51-53: the store query, which may raise
check_all_users(l) ==
    /\ At(l, "query")
    /\ \/ /\ Goto(l, [T(l) EXCEPT !.pc = "users",
                                  !.planned = get_users_with_limits(rules),
                                  !.queue = get_users_with_limits(rules)])
       \/ SweepRaises(l)
    /\ UNCHANGED <<rules, subs, accounts, violations, running, active, effects, evalOut, opOut>>

\* check_all_users returns, line 55 with the queue empty
SweepReturns(l) ==
    Goto(l, [T(l) EXCEPT !.pc = "sweep_end"])

\* for user in users_with_limits, line 55
next_user(l) ==
    /\ At(l, "users")
    /\ IF T(l).queue = <<>>
       THEN SweepReturns(l)
       ELSE Goto(l, [T(l) EXCEPT !.pc = "usage", !.cur = Head(T(l).queue),
                                 !.queue = Tail(T(l).queue)])
    /\ UNCHANGED <<rules, subs, accounts, violations, running, active, effects, evalOut, opOut>>

\* the dict built at lines 90-97, for the kinds of LimitTypes:
\* 'data_limit' and 'time_limit' are both user_stats.get('uptime', 0)
UsageOf(uptime) ==
    [t \in LimitTypes |-> uptime]

\* get_current_usage, lines 81-103
get_current_usage(l) ==
    /\ At(l, "usage")
    /\ \/ \E uptime \in 0..MaxStat :
            Goto(l, [T(l) EXCEPT !.pc = "check", !.fetch = "ok",
                                 !.usage = UsageOf(uptime)])
       \/ Goto(l, [T(l) EXCEPT !.pc = "check", !.fetch = "empty", !.usage = <<>>])
       \/ Goto(l, [T(l) EXCEPT !.pc = "check", !.fetch = "error", !.usage = <<>>])
    /\ UNCHANGED <<rules, subs, accounts, violations, running, active, effects, evalOut, opOut>>

\* the try of lines 56-59 left out: the exception leaves check_all_users
UserRaisesEscapes(l) ==
    Goto(l, [T(l) EXCEPT !.pc = "sweep_error"])

\* an exception leaves check_user_limits of the monitor: lines 58-59
UserRaises(l) ==
    Goto(l, [T(l) EXCEPT !.pc = "user_end", !.exc = TRUE])

\* line 67
check_limits(l) ==
    /\ At(l, "check")
    /\ LET out == check_user_limits(rules, T(l).cur, T(l).usage)
       IN  IF out.raised
           THEN UserRaises(l)
           ELSE Goto(l, [T(l) EXCEPT !.pc = "rules", !.results = out.results,
                                     !.checks = out.results])
    /\ UNCHANGED <<rules, subs, accounts, violations, running, active, effects, evalOut, opOut>>

Unresolved(vs, username, limit_type) ==
    \E i \in 1..Len(vs) :
        /\ vs[i].username = username
        /\ vs[i].limit_type = limit_type
        /\ ~vs[i].resolved

\* lines 69-79 with a test that is not there: an exceeded rule that already
\* has an unresolved violation is passed over
next_check_dedup(l) ==
    /\ At(l, "rules")
    /\ IF T(l).checks = <<>>
       THEN Goto(l, [T(l) EXCEPT !.pc = "user_end"])
       ELSE LET it == Head(T(l).checks)
                r == [T(l) EXCEPT !.checks = Tail(T(l).checks), !.item = it, !.hist = <<>>,
                                  !.enforced = None, !.sent = <<>>]
            IN  IF it.entry.exceeded /\ ~Unresolved(violations, T(l).cur, it.limit_type)
                THEN Goto(l, [r EXCEPT !.pc = "violation", !.mode = "violation"])
                ELSE Goto(l, r)
    /\ UNCHANGED <<rules, subs, accounts, violations, running, active, effects, evalOut, opOut>>

\* lines 69-79
next_check(l) ==
    /\ At(l, "rules")
    /\ IF T(l).checks = <<>>
       THEN Goto(l, [T(l) EXCEPT !.pc = "user_end"])
       ELSE LET it == Head(T(l).checks)
                r == [T(l) EXCEPT !.checks = Tail(T(l).checks), !.item = it, !.hist = <<>>,
                                  !.enforced = None, !.sent = <<>>]
            IN  IF it.entry.exceeded
                THEN Goto(l, [r EXCEPT !.pc = "violation", !.mode = "violation"])
                ELSE IF it.entry.should_notify
                THEN Goto(l, [r EXCEPT !.pc = "notify", !.mode = "warning",
                                       !.hist = <<"dispatch">>,
                                       !.nq = get_limit_notifications(subs, T(l).cur, it.limit_type)])
                ELSE Goto(l, r)
    /\ UNCHANGED <<rules, subs, accounts, violations, running, active, effects, evalOut, opOut>>

Effect(l, what) == effects' = effects \cup {<<what, T(l).cur, T(l).item.limit_type>>}

\* the exception of a failed write leaves handle_limit_exceeded, which has no
\* try, and check_user_limits of the monitor, which has none either
WriteRaises(l) ==
    Goto(l, [T(l) EXCEPT !.pc = "user_end", !.exc = TRUE,
                         !.hist = Append(@, "violation_failed")])

\* the write of lines 126-133 left out: the action is taken without it
record_violation_skipped(l) ==
    /\ At(l, "violation")
    /\ Goto(l, [T(l) EXCEPT !.pc = "action"])
    /\ UNCHANGED <<rules, subs, accounts, violations, running, active, effects, evalOut, opOut>>

\* handle_limit_exceeded, lines 124-134: the write may raise; a table that
\* holds MaxViolations rows takes no more
record_violation(l) ==
    /\ At(l, "violation")
    /\ \/ /\ Len(violations) < MaxViolations
          /\ violations' = create_limit_violation(violations,
                               T(l).cur, T(l).item.limit_type,
                               UsageGet(T(l).usage, T(l).item.limit_type),
                               CheckResultLimitValue(T(l).item.entry),
                               T(l).item.entry.action)
          /\ Goto(l, [T(l) EXCEPT !.pc = "action", !.hist = Append(@, "violation")])
          /\ Effect(l, "violation")
       \/ /\ WriteRaises(l)
          /\ UNCHANGED <<violations, effects>>
    /\ UNCHANGED <<rules, subs, accounts, running, active, evalOut, opOut>>

\* the if/elif of lines 137-142 calls a method for these actions, none for "notify"
Enforcing(action) == action \in {"disable", "throttle", "delete"}

\* the names a function of limits_monitor.py can read besides its own
\* parameters and locals: the imports of lines 5-17 and the definitions of
\* the module.  `db` is a parameter of other methods, not one of these.
ModuleNames ==
    {"asyncio", "datetime", "timedelta", "Dict", "Any", "logger", "xray",
     "Session", "crud", "get_db", "check_user_limits", "create_limit_violation",
     "get_user_limits", "get_users_with_limits_count", "LimitTypes",
     "LimitActions", "User", "report", "LimitsMonitor", "limits_monitor",
     "start_limits_monitor", "stop_limits_monitor"}

\* disable_user(self, user), lines 162-169: reading a name that is neither a
\* parameter nor a module name raises NameError, which the except logs
disable_user(acc, username) ==
    IF "db" \notin ModuleNames \cup {"self", "user"}
    THEN [raised |-> TRUE, accounts |-> acc]
    ELSE [raised |-> FALSE,
          accounts |-> [acc EXCEPT ![username] = [status |-> "disabled", sessions |-> FALSE]]]

\* throttle_user changing the account as disable_user is meant to
throttle_user_disables(acc, username) ==
    [raised |-> FALSE,
     accounts |-> [acc EXCEPT ![username] = [status |-> "disabled", sessions |-> FALSE]]]

\* throttle_user, lines 171-178: a log line
throttle_user(acc, username) ==
    [raised |-> FALSE, accounts |-> acc]

\* delete_user(self, user), lines 180-187
delete_user(acc, username) ==
    IF "db" \notin ModuleNames \cup {"self", "user"}
    THEN [raised |-> TRUE, accounts |-> acc]
    ELSE [raised |-> FALSE,
          accounts |-> [acc EXCEPT ![username] = [status |-> "deleted", sessions |-> FALSE]]]

\* the if/elif of lines 137-142
Enforce(acc, username, action) ==
    IF action = "disable" THEN disable_user(acc, username)
    ELSE IF action = "throttle" THEN throttle_user(acc, username)
    ELSE IF action = "delete" THEN delete_user(acc, username)
    ELSE [raised |-> FALSE, accounts |-> acc]

\* the except of the action method left out: its exception leaves
\* handle_limit_exceeded
EnforcementRaises(l, out) ==
    IF out.raised
    THEN /\ Goto(l, [T(l) EXCEPT !.pc = "user_end", !.exc = TRUE,
                                 !.hist = Append(@, T(l).item.entry.action),
                                 !.enforced = "error"])
         /\ effects' = effects \cup {<<"enforce", T(l).cur, T(l).item.limit_type>>}
    ELSE /\ Goto(l, [T(l) EXCEPT !.pc = "notify",
                                 !.hist = Append(Append(@, T(l).item.entry.action), "dispatch"),
                                 !.enforced = "done",
                                 !.nq = get_limit_notifications(subs, T(l).cur, T(l).item.limit_type)])
         /\ effects' = effects \cup {<<"dispatch", T(l).cur, T(l).item.limit_type>>}

\* lines 136-145: the action method has ended, by its last statement or by
\* its except (lines 168-169, 177-178, 186-187), and
\* send_violation_notification is called.  The history keeps the rule's
\* action as the branch taken, then the call of the dispatch.
Enforced(l, out) ==
    /\ Goto(l, [T(l) EXCEPT !.pc = "notify",
                            !.hist = Append(Append(@, T(l).item.entry.action), "dispatch"),
                            !.enforced = IF out.raised THEN "error"
                                         ELSE IF Enforcing(T(l).item.entry.action) THEN "done"
                                         ELSE None,
                            !.nq = get_limit_notifications(subs, T(l).cur, T(l).item.limit_type)])
    /\ effects' = effects
            \cup {<<"dispatch", T(l).cur, T(l).item.limit_type>>}
            \cup (IF Enforcing(T(l).item.entry.action)
                  THEN {<<"enforce", T(l).cur, T(l).item.limit_type>>} ELSE {})

take_action(l) ==
    /\ At(l, "action")
    /\ LET out == Enforce(accounts, T(l).cur, T(l).item.entry.action)
       IN  /\ accounts' = out.accounts
           /\ Enforced(l, out)
    /\ UNCHANGED <<rules, subs, violations, running, active, evalOut, opOut>>

\* the end of a dispatch: lines 147-160 after a violation (the log line and
\* report.user_limit_exceeded, taken to return), line 69 after a warning
DispatchEnds(l) ==
    Goto(l, [T(l) EXCEPT !.pc = "rules",
                         !.done = Append(@, [limit_type |-> T(l).item.limit_type,
                                             hist |-> T(l).hist,
                                             enforced |-> T(l).enforced])])

\* one call of send_notification: the subscription, its channel, how it ended
Sent(n, ok) == [id |-> n.id, channel |-> n.notification_type, ok |-> ok]

\* the enabled test of lines 204 and 222 left out
NotifiesAll(l, n) == TRUE

\* line 204 for a warning: notification.enabled and percentage >= threshold;
\* line 222 for a violation: notification.enabled
Notifies(l, n) ==
    /\ n.enabled
    /\ T(l).mode = "warning" =>
          AtLeastThreshold(T(l).item.entry.percentage, T(l).item.entry.threshold)

\* for notification in notifications, lines 203-209 and 221-228, and
\* send_notification, lines 230-240
next_notification(l) ==
    /\ At(l, "notify")
    /\ IF T(l).nq = <<>>
       THEN DispatchEnds(l) /\ UNCHANGED active
       ELSE LET n == Head(T(l).nq)
                r == [T(l) EXCEPT !.nq = Tail(T(l).nq)]
            IN  IF ~Notifies(l, n)
                THEN Goto(l, r) /\ UNCHANGED active
                ELSE IF n.notification_type = "webhook"
                THEN /\ Goto(l, [r EXCEPT !.pc = "webhook", !.posting = n])
                     /\ active' = None
                ELSE /\ Goto(l, [r EXCEPT !.hist = Append(@, n.notification_type),
                                          !.sent = Append(@, Sent(n, TRUE))])
                     /\ UNCHANGED active
    /\ UNCHANGED <<rules, subs, accounts, violations, running, effects, evalOut, opOut>>

\* the except of lines 269-270 and of lines 239-240 left out: a post that
\* fails raises out of the dispatch
WebhookRaises(l, ok) ==
    IF ok
    THEN Goto(l, [T(l) EXCEPT !.pc = "notify", !.posting = NoNotification,
                              !.hist = Append(@, "webhook"),
                              !.sent = Append(@, Sent(T(l).posting, TRUE))])
    ELSE Goto(l, [T(l) EXCEPT !.pc = "user_end", !.exc = TRUE,
                              !.posting = NoNotification,
                              !.hist = Append(@, "webhook_failed"),
                              !.sent = Append(@, Sent(T(l).posting, FALSE))])

\* lines 264-270: status 200 is logged as sent; any other status, a timeout
\* or a transport error is logged as an error
WebhookEnds(l, ok) ==
    Goto(l, [T(l) EXCEPT !.pc = "notify", !.posting = NoNotification,
                         !.hist = Append(@, IF ok THEN "webhook" ELSE "webhook_failed"),
                         !.sent = Append(@, Sent(T(l).posting, ok))])

\* send_webhook, lines 252-270: the post ends
webhook_response(l) ==
    /\ Parked(l, "webhook")
    /\ \E ok \in BOOLEAN : WebhookEnds(l, ok)
    /\ active' = l
    /\ UNCHANGED <<rules, subs, accounts, violations, running, effects, evalOut, opOut>>

\* the for loop of check_all_users is done with `cur`, lines 55-59
user_end(l) ==
    /\ At(l, "user_end")
    /\ Goto(l, [IdleTask EXCEPT !.pc = "users", !.planned = T(l).planned,
                                !.queue = T(l).queue,
                                !.visited = T(l).visited \cup {T(l).cur},
                                !.failed = IF T(l).exc THEN T(l).failed \cup {T(l).cur}
                                                       ELSE T(l).failed])
    /\ UNCHANGED <<rules, subs, accounts, violations, running, active, effects, evalOut, opOut>>

\* asyncio.sleep(delay) returns at the first tick at or after `delay` seconds
Ticks(delay) == (delay + TickSeconds - 1) \div TickSeconds

\* await asyncio.sleep(self.check_interval), line 39
sleep(l) ==
    /\ At(l, "sweep_end")
    /\ Goto(l, [IdleTask EXCEPT !.pc = "sleep", !.delay = check_interval,
                                !.timer = Ticks(check_interval)])
    /\ active' = None
    /\ UNCHANGED <<rules, subs, accounts, violations, running, effects, evalOut, opOut>>

\* the except of start giving up: it clears the flag before it sleeps
backoff_stops(l) ==
    /\ At(l, "sweep_error")
    /\ Goto(l, [IdleTask EXCEPT !.pc = "backoff", !.delay = error_interval,
                                !.timer = Ticks(error_interval)])
    /\ active' = None
    /\ running' = FALSE
    /\ UNCHANGED <<rules, subs, accounts, violations, effects, evalOut, opOut>>

\* the except of start sleeping the interval of line 39
backoff_check_interval(l) ==
    /\ At(l, "sweep_error")
    /\ Goto(l, [IdleTask EXCEPT !.pc = "backoff", !.delay = check_interval,
                                !.timer = Ticks(check_interval)])
    /\ active' = None
    /\ UNCHANGED <<rules, subs, accounts, violations, running, effects, evalOut, opOut>>

\* lines 40-42: log the error, await asyncio.sleep(60)
backoff(l) ==
    /\ At(l, "sweep_error")
    /\ Goto(l, [IdleTask EXCEPT !.pc = "backoff", !.delay = error_interval,
                                !.timer = Ticks(error_interval)])
    /\ active' = None
    /\ UNCHANGED <<rules, subs, accounts, violations, running, effects, evalOut, opOut>>

Sleeping(l) == T(l).pc \in {"sleep", "backoff"}

\* one tick of the clock while the event loop is idle: asyncio.sleep takes
\* its delay and nothing else, so only time ends it
tick ==
    /\ active = None
    /\ \E l \in Loops : Sleeping(l) /\ T(l).timer > 0
    /\ task' = [l \in Loops |->
                  IF Sleeping(l) /\ T(l).timer > 0
                  THEN [T(l) EXCEPT !.timer = @ - 1] ELSE T(l)]
    /\ UNCHANGED <<rules, subs, accounts, violations, running, active, effects, evalOut, opOut>>

\* asyncio.sleep returns, lines 39 and 42
wake(l) ==
    /\ \/ Parked(l, "sleep")
       \/ Parked(l, "backoff")
    /\ T(l).timer = 0
    /\ active' = l
    /\ Goto(l, [T(l) EXCEPT !.pc = "top", !.delay = 0])
    /\ UNCHANGED <<rules, subs, accounts, violations, running, effects, evalOut, opOut>>

----------------------------------------------------------------------------
(* The monitor over a store that holds some rules and subscriptions *)

MonitorActions == {"disable", "delete"}

\* u1 holds a data_limit rule, enabled with an action on the account or
\* disabled, and possibly a time_limit rule after it; u2 holds one enabled rule
FirstRules ==
    { UserLimit("u1", "data_limit", v, a, TRUE, 50) :
        v \in LimitValues, a \in MonitorActions }
        \cup { UserLimit("u1", "data_limit", v, "disable", FALSE, 50) : v \in LimitValues }

SecondRules ==
    { UserLimit("u1", "time_limit", 2, "throttle", TRUE, 50) }

OtherUserRule == UserLimit("u2", "data_limit", 2, "notify", TRUE, 50)

MonitorRuleSets ==
    { <<a, OtherUserRule>> : a \in FirstRules }
        \cup { <<a, b, OtherUserRule>> : a \in FirstRules, b \in SecondRules }

\* u1 subscribes to data_limit on a webhook and on email, and holds a
\* disabled subscription between the two
SubscriptionSets ==
    { <<LimitNotification(1, "u1", "data_limit", "webhook", TRUE),
        LimitNotification(2, "u1", "data_limit", "email", FALSE),
        LimitNotification(3, "u1", "data_limit", "email", TRUE)>> }

Init ==
    /\ rules \in MonitorRuleSets
    /\ subs \in SubscriptionSets
    /\ accounts = [u \in Users |-> ActiveAccount]
    /\ violations = <<>>
    /\ running = FALSE
    /\ active = None
    /\ task = [l \in Loops |-> IdleTask]
    /\ effects = {}
    /\ evalOut = NotCalled
    /\ opOut = NoOp

Next ==
    \/ stop
    \/ tick
    \/ \E l \in Loops :
        \/ start(l)
        \/ loop_top(l)
        \/ check_all_users(l)
        \/ next_user(l)
        \/ get_current_usage(l)
        \/ check_limits(l)
        \/ next_check(l)
        \/ record_violation(l)
        \/ take_action(l)
        \/ next_notification(l)
        \/ webhook_response(l)
        \/ user_end(l)
        \/ sleep(l)
        \/ backoff(l)
        \/ wake(l)

Spec == Init /\ [][Next]_vars

----------------------------------------------------------------------------
(* The monitor over one user with a disable rule whose account is active *)
(* or was disabled before the monitor started                            *)

DisabledAccount == [status |-> "disabled", sessions |-> FALSE]

AccountInit ==
    /\ \E v \in LimitValues :
          rules = <<UserLimit("u1", "data_limit", v, "disable", TRUE, 50), OtherUserRule>>
    /\ subs \in SubscriptionSets
    /\ accounts \in { [u \in Users |-> IF u = "u1" THEN a ELSE ActiveAccount] :
                        a \in {ActiveAccount, DisabledAccount} }
    /\ violations = <<>>
    /\ running = FALSE
    /\ active = None
    /\ task = [l \in Loops |-> IdleTask]
    /\ effects = {}
    /\ evalOut = NotCalled
    /\ opOut = NoOp

AccountSpec == AccountInit /\ [][Next]_vars

\* a step of the task of one start() call
LoopStep(l) ==
    \/ loop_top(l)
    \/ check_all_users(l)
    \/ next_user(l)
    \/ get_current_usage(l)
    \/ check_limits(l)
    \/ next_check(l)
    \/ record_violation(l)
    \/ take_action(l)
    \/ next_notification(l)
    \/ webhook_response(l)
    \/ user_end(l)
    \/ sleep(l)
    \/ backoff(l)
    \/ wake(l)

\* the event loop runs a task that is ready, time passes, and a webhook
\* post ends (aiohttp's total timeout ends it if nothing else does)
Fairness ==
    /\ WF_vars(tick)
    /\ \A l \in Loops : WF_vars(LoopStep(l))

\* a user whose rule raises in the evaluator below the threshold and is
\* exceeded at it, with the action method failing and a webhook subscribed,
\* and a second user after it
LiveInit ==
    /\ rules = <<UserLimit("u1", "data_limit", 2, "disable", TRUE, 50), OtherUserRule>>
    /\ subs \in SubscriptionSets
    /\ accounts = [u \in Users |-> ActiveAccount]
    /\ violations = <<>>
    /\ running = FALSE
    /\ active = None
    /\ task = [l \in Loops |-> IdleTask]
    /\ effects = {}
    /\ evalOut = NotCalled
    /\ opOut = NoOp

LiveSpec == LiveInit /\ [][Next]_vars /\ Fairness

----------------------------------------------------------------------------
(* The store operations of crud_limits.py and set_user_limits of the API. *)
(* An operation is an operator from the table to the table it commits,    *)
(* what it returns and whether it raised; rows are kept in id order.      *)

StoreValues == {1, 2}

\* rows as create_user_limit writes them (enabled, threshold 0.8) and as
\* update_user_limit can leave them
StoreRows ==
    { UserLimit(u, t, v, "notify", e, 80) :
        u \in Users, t \in LimitTypes, v \in StoreValues, e \in BOOLEAN }

StoreRuleSets ==
    UNION { { rs \in [1..n -> StoreRows] : UniqueUserLimit(rs) } : n \in 0..MaxRules }

Remove(q, i) == [j \in 1..(Len(q) - 1) |-> IF j < i THEN q[j] ELSE q[j + 1]]

\* db.add and db.commit with no constraint on the table
InsertUnchecked(rs, row) ==
    [rules |-> Append(rs, row), raised |-> FALSE]

\* db.add and db.commit, lines 35-36: the table's unique constraint on
\* (username, limit_type) makes the commit raise IntegrityError
Insert(rs, row) ==
    IF UniqueUserLimit(Append(rs, row))
    THEN [rules |-> Append(rs, row), raised |-> FALSE]
    ELSE [rules |-> rs, raised |-> TRUE]

\* create_user_limit, lines 18-38, as set_user_limits and
\* apply_template_to_user call it: enabled and the threshold take the
\* column default and the argument default 0.8
create_user_limit(rs, username, limit_type, limit_value, action) ==
    Insert(rs, UserLimit(username, limit_type, limit_value, action, TRUE, 80))

\* get_user_limit without the filter of line 51
get_user_limit_any(rs, username, limit_type) ==
    LET m == { i \in 1..Len(rs) : /\ rs[i].username = username
                                  /\ rs[i].limit_type = limit_type }
    IN  IF m = {} THEN 0 ELSE CHOOSE i \in m : \A j \in m : i <= j

\* get_user_limit, lines 46-52: the first enabled row of the pair, 0 for None
get_user_limit(rs, username, limit_type) ==
    LET m == { i \in 1..Len(rs) : /\ rs[i].username = username
                                  /\ rs[i].limit_type = limit_type
                                  /\ rs[i].enabled }
    IN  IF m = {} THEN 0 ELSE CHOOSE i \in m : \A j \in m : i <= j

\* setattr(user_limit, key, value) for key, value in kwargs.items()
SetAttrs(row, kwargs) ==
    [f \in DOMAIN row |-> IF f \in DOMAIN kwargs THEN kwargs[f] ELSE row[f]]

\* update_user_limit, lines 55-69
update_user_limit(rs, username, limit_type, kwargs) ==
    LET i == get_user_limit(rs, username, limit_type)
    IN  IF i = 0
        THEN [rules |-> rs, ret |-> "None", raised |-> FALSE]
        ELSE LET rs2 == [rs EXCEPT ![i] = SetAttrs(rs[i], kwargs)]
             IN  IF UniqueUserLimit(rs2)
                 THEN [rules |-> rs2, ret |-> "row", raised |-> FALSE]
                 ELSE [rules |-> rs, ret |-> None, raised |-> TRUE]

\* delete_user_limit, lines 72-79
delete_user_limit(rs, username, limit_type) ==
    LET i == get_user_limit(rs, username, limit_type)
    IN  IF i = 0
        THEN [rules |-> rs, ret |-> "False", raised |-> FALSE]
        ELSE [rules |-> Remove(rs, i), ret |-> "True", raised |-> FALSE]

\* the for loop of set_user_limits, lines 79-93, over the items of `limits`:
\* an exception of create_user_limit leaves the route, the rows committed
\* before it stay
RECURSIVE SetLoop(_, _, _)
SetLoop(rs, username, items) ==
    IF items = <<>> THEN [rules |-> rs, ret |-> "results", raised |-> FALSE]
    ELSE LET out == create_user_limit(rs, username, Head(items).limit_type,
                                      Head(items).value, Head(items).action)
         IN  IF out.raised THEN [rules |-> out.rules, ret |-> None, raised |-> TRUE]
             ELSE SetLoop(out.rules, username, Tail(items))

\* set_user_limits of the API, lines 66-95, for a user get_db_user finds
set_user_limits(rs, username, limits) ==
    SetLoop(rs, username, limits)

\* table limit_templates.  The `rules` of a row are what the template is
\* meant to hold, as BASIC_TEMPLATE does; whether the code can read them
\* is decided by LimitTemplateAttrs.
TemplateRule(t, v, a) == [limit_type |-> t, value |-> v, action |-> a]

limit_templates ==
    << [id |-> 1, name |-> "Basic Plan",
        rules |-> <<TemplateRule("data_limit", 2, "notify"),
                    TemplateRule("time_limit", 2, "notify")>>],
       [id |-> 2, name |-> "Data Plan",
        rules |-> <<TemplateRule("data_limit", 2, "notify")>>] >>

NoTemplate == [id |-> 0, name |-> None, rules |-> <<>>]

\* db.query(LimitTemplate).filter(LimitTemplate.id == template_id).first()
GetTemplate(template_id) ==
    IF \E i \in 1..Len(limit_templates) : limit_templates[i].id = template_id
    THEN limit_templates[CHOOSE i \in 1..Len(limit_templates) :
                            limit_templates[i].id = template_id]
    ELSE NoTemplate

\* the attributes of a LimitTemplate object: its columns and the backref of
\* LimitNotification.template
LimitTemplateAttrs ==
    {"id", "name", "description", "is_default", "is_active", "created_by",
     "created_at", "updated_at", "notifications"}

\* for limit in existing_limits: delete_user_limit(...), lines 178-179
RECURSIVE DeleteLoop(_, _, _)
DeleteLoop(rs, username, existing_limits) ==
    IF existing_limits = <<>> THEN rs
    ELSE DeleteLoop(delete_user_limit(rs, username, Head(existing_limits).limit_type).rules,
                    username, Tail(existing_limits))

\* for rule in template.rules: create_user_limit(...), lines 182-183
RECURSIVE CreateLoop(_, _, _)
CreateLoop(rs, username, template_rules) ==
    IF template_rules = <<>> THEN [rules |-> rs, ret |-> "True", raised |-> FALSE]
    ELSE LET out == create_user_limit(rs, username, Head(template_rules).limit_type,
                                      Head(template_rules).value,
                                      Head(template_rules).action)
         IN  IF out.raised THEN [rules |-> out.rules, ret |-> None, raised |-> TRUE]
             ELSE CreateLoop(out.rules, username, Tail(template_rules))

\* the delete loop left out and the rows added with no constraint
apply_template_appends(rs, username, template_id) ==
    LET template == GetTemplate(template_id)
        added == [i \in 1..Len(template.rules) |->
                    UserLimit(username, template.rules[i].limit_type,
                              template.rules[i].value, template.rules[i].action, TRUE, 80)]
    IN  IF template = NoTemplate
        THEN [rules |-> rs, ret |-> "False", raised |-> FALSE]
        ELSE [rules |-> rs \o added, ret |-> "True", raised |-> FALSE]

\* apply_template_to_user, lines 166-185: every delete commits (line 77);
\* reading template.rules at line 182 raises AttributeError, LimitTemplate
\* having no such attribute
apply_template_to_user(rs, username, template_id) ==
    LET template == GetTemplate(template_id)
    IN  IF template = NoTemplate
        THEN [rules |-> rs, ret |-> "False", raised |-> FALSE]
        ELSE LET deleted == DeleteLoop(rs, username, get_user_limits(rs, username))
             IN  IF "rules" \notin LimitTemplateAttrs
                 THEN [rules |-> deleted, ret |-> None, raised |-> TRUE]
                 ELSE CreateLoop(deleted, username, template.rules)

\* resolve_violation setting the flag to what it was not
resolve_violation_toggles(vs, violation_id) ==
    IF violation_id \in 1..Len(vs)
    THEN [violations |-> [vs EXCEPT ![violation_id].resolved = ~@], ret |-> "True"]
    ELSE [violations |-> vs, ret |-> "False"]

\* resolve_violation, lines 124-132; the id of a row is its position
resolve_violation(vs, violation_id) ==
    IF violation_id \in 1..Len(vs)
    THEN [violations |-> [vs EXCEPT ![violation_id].resolved = TRUE], ret |-> "True"]
    ELSE [violations |-> vs, ret |-> "False"]

\* the call last made: its name, the username and the limit_type it was made
\* for, what it returned and whether it raised
Op(name, args, out) == [op |-> name, args |-> args, ret |-> out.ret, raised |-> out.raised]

LimitsInputs ==
    { <<TemplateRule(t, v, "notify")>> : t \in LimitTypes, v \in StoreValues }
        \cup { <<TemplateRule("data_limit", 2, "notify"), TemplateRule("time_limit", 1, "notify")>> }

KwargsInputs ==
    { [limit_value |-> 1], [enabled |-> FALSE], [limit_value |-> 2, enabled |-> TRUE] }

TemplateIds == {1, 2, 3}

ViolationIds == 1..(MaxViolations + 1)

storeFrame == <<subs, accounts, running, active, task, effects, evalOut>>

SetUserLimits(username, limits) ==
    /\ Len(rules) + Len(limits) <= MaxRules
    /\ LET out == set_user_limits(rules, username, limits)
       IN  /\ rules' = out.rules
           /\ opOut' = Op("set_user_limits", <<username>>, out)
    /\ UNCHANGED <<violations, storeFrame>>

UpdateUserLimit(username, limit_type, kwargs) ==
    /\ LET out == update_user_limit(rules, username, limit_type, kwargs)
       IN  /\ rules' = out.rules
           /\ opOut' = Op("update_user_limit", <<username, limit_type>>, out)
    /\ UNCHANGED <<violations, storeFrame>>

DeleteUserLimit(username, limit_type) ==
    /\ LET out == delete_user_limit(rules, username, limit_type)
       IN  /\ rules' = out.rules
           /\ opOut' = Op("delete_user_limit", <<username, limit_type>>, out)
    /\ UNCHANGED <<violations, storeFrame>>

ApplyTemplate(username, template_id) ==
    /\ LET out == apply_template_to_user(rules, username, template_id)
       IN  /\ rules' = out.rules
           /\ opOut' = Op("apply_template_to_user", <<username>>, out)
    /\ UNCHANGED <<violations, storeFrame>>

CreateLimitViolation(username, current_value) ==
    /\ Len(violations) < MaxViolations
    /\ violations' = create_limit_violation(violations, username, "data_limit",
                                            current_value, 2, "notify")
    /\ opOut' = [op |-> "create_limit_violation", args |-> <<>>, ret |-> "row", raised |-> FALSE]
    /\ UNCHANGED <<rules, storeFrame>>

ResolveViolation(violation_id) ==
    /\ LET out == resolve_violation(violations, violation_id)
       IN  /\ violations' = out.violations
           /\ opOut' = [op |-> "resolve_violation", args |-> <<>>, ret |-> out.ret, raised |-> FALSE]
    /\ UNCHANGED <<rules, storeFrame>>

StoreInit ==
    /\ rules \in StoreRuleSets
    /\ subs = <<>>
    /\ accounts = [u \in Users |-> ActiveAccount]
    /\ violations = <<>>
    /\ running = FALSE
    /\ active = None
    /\ task = [l \in Loops |-> IdleTask]
    /\ effects = {}
    /\ evalOut = NotCalled
    /\ opOut = NoOp

StoreNext ==
    \/ \E username \in Users, limits \in LimitsInputs : SetUserLimits(username, limits)
    \/ \E username \in Users, limit_type \in LimitTypes, kwargs \in KwargsInputs :
          UpdateUserLimit(username, limit_type, kwargs)
    \/ \E username \in Users, limit_type \in LimitTypes : DeleteUserLimit(username, limit_type)
    \/ \E username \in Users, template_id \in TemplateIds : ApplyTemplate(username, template_id)

StoreSpec == StoreInit /\ [][StoreNext]_vars

\* the violations table on its own: rows are written and resolved
ViolationInit ==
    /\ rules = <<>>
    /\ subs = <<>>
    /\ accounts = [u \in Users |-> ActiveAccount]
    /\ violations = <<>>
    /\ running = FALSE
    /\ active = None
    /\ task = [l \in Loops |-> IdleTask]
    /\ effects = {}
    /\ evalOut = NotCalled
    /\ opOut = NoOp

ViolationNext ==
    \/ \E username \in Users, current_value \in 2..MaxUsage :
          CreateLimitViolation(username, current_value)
    \/ \E violation_id \in ViolationIds : ResolveViolation(violation_id)

ViolationSpec == ViolationInit /\ [][ViolationNext]_vars

----------------------------------------------------------------------------
(* Properties of the evaluator, over direct calls (EvalSpec) *)

\* the enabled rules of the user the last call was made for
EvaluatedRules ==
    { rules[i] : i \in { j \in 1..Len(rules) :
                            rules[j].username = evalOut.username /\ rules[j].enabled } }

CurrentValue(limit) == UsageGet(evalOut.current_usage, limit.limit_type)

Reported(limit) ==
    ~evalOut.out.raised /\ DictHas(evalOut.out.results, limit.limit_type)

ReportedEntry(limit) == DictGet(evalOut.out.results, limit.limit_type)

\* C1: for every enabled rule with threshold > 0 and every usage value, the call
\* reports the rule as exceeded if and only if current_value >= limit_value.
C1_ExceededIffReached ==
    evalOut.called =>
        \A limit \in EvaluatedRules :
            limit.limit_value > 0 =>
                ((Reported(limit) /\ ReportedEntry(limit).exceeded)
                    <=> CurrentValue(limit) >= limit.limit_value)

\* C2: for every enabled rule the call reports as not exceeded, should_notify is
\* true if and only if the rule's percentage is at least its warning fraction.
C2_WarningIffFraction ==
    (evalOut.called /\ ~evalOut.out.raised) =>
        \A limit \in EvaluatedRules :
            (Reported(limit) /\ ~ReportedEntry(limit).exceeded) =>
                (ReportedEntry(limit).should_notify
                    <=> AtLeastThreshold(Percentage(CurrentValue(limit), limit.limit_value),
                                         limit.notification_threshold))

\* C3: for every enabled rule, exceeded or not, the call reports a percentage and
\* it is current_value / limit_value * 100 of that rule (0 when limit_value <= 0).
C3_PercentageOfSameRule ==
    evalOut.called =>
        \A limit \in EvaluatedRules :
            /\ Reported(limit)
            /\ SamePercentage(ReportedEntry(limit).percentage,
                              Percentage(CurrentValue(limit), limit.limit_value))

----------------------------------------------------------------------------
(* Properties of the monitor (Spec) *)

Disabled(username, limit_type) ==
    \E i \in 1..Len(rules) :
        /\ rules[i].username = username
        /\ rules[i].limit_type = limit_type
        /\ ~rules[i].enabled

HandlingPcs == {"violation", "action", "notify", "webhook"}

IsPrefix(p, q) == Len(p) <= Len(q) /\ \A i \in 1..Len(p) : p[i] = q[i]

Handled(l, limit_type, prefix) ==
    \E i \in 1..Len(T(l).done) :
        T(l).done[i].limit_type = limit_type /\ IsPrefix(prefix, T(l).done[i].hist)

\* C5: for every rule a sweep evaluates as exceeded the monitor writes a
\* violation record, invokes the rule's action, then dispatches notifications.
C5_ExceededHandledInOrder ==
    \A l \in Loops :
        T(l).pc = "user_end" =>
            \A i \in 1..Len(T(l).results) :
                T(l).results[i].entry.exceeded =>
                    Handled(l, T(l).results[i].limit_type,
                            <<"violation", T(l).results[i].entry.action, "dispatch">>)

AtWarningLevel(limit, current_usage) ==
    LET current_value == UsageGet(current_usage, limit.limit_type)
    IN  /\ limit.enabled
        /\ ~LimitReached(current_value, limit.limit_value)
        /\ AtLeastThreshold(Percentage(current_value, limit.limit_value),
                            limit.notification_threshold)

\* C6: for every enabled rule a sweep finds at warning level the monitor runs the
\* notification dispatch, and neither a violation write nor an enforcement action.
C6_WarningDispatched ==
    \A l \in Loops :
        (T(l).pc = "user_end" /\ ~T(l).exc /\ T(l).fetch = "ok") =>
            \A i \in 1..Len(rules) :
                (rules[i].username = T(l).cur /\ AtWarningLevel(rules[i], T(l).usage)) =>
                    \E j \in 1..Len(T(l).done) :
                        /\ T(l).done[j].limit_type = rules[i].limit_type
                        /\ T(l).done[j].hist # <<>>
                        /\ T(l).done[j].hist[1] = "dispatch"

Range(q) == { q[i] : i \in 1..Len(q) }

\* C7: an exception while one user is processed is caught: the sweep goes on to
\* every other user of the query and check_all_users does not raise for it.
C7_PerUserFailureIsolated ==
    \A l \in Loops :
        /\ T(l).pc = "sweep_end" => T(l).visited = Range(T(l).planned)
        /\ T(l).pc = "sweep_error" => (T(l).planned = <<>> /\ T(l).cur = None)

\* C7 witness: a sweep over two users ended after the first of them raised
C7_Witness ==
    \E l \in Loops :
        /\ T(l).pc = "sweep_end"
        /\ T(l).planned = <<"u1", "u2">>
        /\ T(l).failed = {"u1"}
        /\ T(l).visited = {"u1", "u2"}

\* C8: a user whose usage fetch failed contributes no violation record, no
\* enforcement action and no notification to the sweep.
C8_FailedFetchSkipsUser ==
    \A l \in Loops :
        T(l).fetch = "error" =>
            /\ T(l).pc \notin {"action", "notify", "webhook"}
            /\ T(l).done = <<>>

SweepPcs ==
    {"query", "users", "usage", "check", "rules", "violation", "action", "notify",
     "webhook", "user_end", "sweep_end", "sweep_error"}

\* C9: at most one monitor loop is active and at most one sweep is in flight.
C9_AtMostOneLoop ==
    /\ Cardinality({ l \in Loops : T(l).pc # "idle" }) <= 1
    /\ Cardinality({ l \in Loops : T(l).pc \in SweepPcs }) <= 1

\* C10: running becomes true only in a start call and false only in a stop call
\* (no error of a sweep or of a user stops the monitor), and no start call
\* begins a loop while the monitor is running.
C10_RunningOnlyByStartStop ==
    [][ /\ running \in BOOLEAN
        /\ (~running /\ running') => \E l \in Loops : start(l)
        /\ (running /\ ~running') => stop
        /\ running => \A l \in Loops : T(l).pc = "idle" => task'[l].pc = "idle" ]_vars

\* C10 witness: the monitor is still running in the backoff sleep that follows
\* a sweep that raised
C10_Witness ==
    /\ running
    /\ \E l \in Loops : T(l).pc = "backoff"

\* C11: when stop is called while a loop sleeps, the sleep is cut to at most
\* one tick; and a loop that finds the flag cleared begins no further sweep.
C11_StopInterruptsSleep ==
    [][ \A l \in Loops :
          /\ (~running' /\ task'[l].pc \in {"sleep", "backoff"}) => task'[l].timer <= 1
          /\ (T(l).pc = "top" /\ ~running /\ task'[l] # T(l)) => task'[l].pc = "idle" ]_vars

\* C12: a sweep that raised is followed by the sleep of error_interval, a sweep
\* that returned by the sleep of check_interval, the backoff sleep is entered
\* from nowhere else, and a loop that wakes with the flag set queries again.
C12_BackoffOnlyAfterSweepError ==
    [][ \A l \in Loops :
          /\ error_interval < check_interval
          /\ (T(l).pc = "sweep_error" /\ task'[l] # T(l)) =>
                (task'[l].pc = "backoff" /\ task'[l].delay = error_interval
                    /\ task'[l].timer = Ticks(error_interval))
          /\ (T(l).pc = "sweep_end" /\ task'[l] # T(l)) =>
                (task'[l].pc = "sleep" /\ task'[l].delay = check_interval
                    /\ task'[l].timer = Ticks(check_interval))
          /\ (task'[l].pc = "backoff" /\ T(l).pc # "backoff") => T(l).pc = "sweep_error"
          /\ (T(l).pc \in {"sleep", "backoff"} /\ task'[l].pc \notin {"sleep", "backoff"}) =>
                task'[l].pc = "top"
          /\ (T(l).pc = "top" /\ running /\ task'[l] # T(l)) => task'[l].pc = "query" ]_vars

\* C12 witness: the backoff sleep after a sweep that raised has run out while
\* the monitor is still running
C12_Witness ==
    \E l \in Loops :
        /\ running
        /\ T(l).pc = "backoff"
        /\ T(l).delay = error_interval
        /\ T(l).timer = 0

\* C13: if from some point on the monitor is running for good (started, and
\* never stopped again), a sweep begins infinitely often.
C13_SweepsInfinitelyOften ==
    []<>(~running \/ \E l \in Loops : T(l).pc = "query")

\* C13 witness: a sweep begins in a running monitor whose earlier sweep filled
\* the violations table
C13_Witness ==
    /\ running
    /\ Len(violations) = MaxViolations
    /\ \E l \in Loops : T(l).pc = "query"

DispatchDone(l) ==
    T(l).pc = "notify" /\ T(l).nq = <<>> /\ T(l).mode = "violation"

Matching(l) ==
    Range(get_limit_notifications(subs, T(l).cur, T(l).item.limit_type))

Attempts(l, n) ==
    Cardinality({ i \in 1..Len(T(l).sent) : T(l).sent[i].id = n.id })

\* C14: a send that fails does not raise out of the dispatch, and the dispatch
\* still makes a send to every enabled subscription.
C14_ChannelFailureIsolated ==
    \A l \in Loops :
        /\ (T(l).pc = "user_end" /\ T(l).exc) => "dispatch" \notin Range(T(l).hist)
        /\ DispatchDone(l) => \A n \in Matching(l) : n.enabled => Attempts(l, n) >= 1

\* C14 witness: a dispatch ended with the webhook send failed and the email
\* send after it made
C14_Witness ==
    \E l \in Loops :
        /\ DispatchDone(l)
        /\ \E i, j \in 1..Len(T(l).sent) :
              /\ i < j
              /\ T(l).sent[i].channel = "webhook" /\ ~T(l).sent[i].ok
              /\ T(l).sent[j].channel = "email" /\ T(l).sent[j].ok

EnforcedPcs == {"notify", "webhook"}

\* C16: once the action of an exceeded disable rule has run, the account has
\* status disabled and no sessions, the disable having been carried out.
C16_DisableCarriedOut ==
    \A l \in Loops :
        (T(l).pc \in EnforcedPcs /\ T(l).mode = "violation"
            /\ T(l).item.entry.action = "disable") =>
                /\ T(l).enforced = "done"
                /\ accounts[T(l).cur] = DisabledAccount

\* C17: the disable action on an account that is already disabled ends
\* without an error and leaves the account as it was.
C17_DisableIdempotent ==
    [][ \A l \in Loops :
          (take_action(l) /\ T(l).item.entry.action = "disable"
              /\ accounts[T(l).cur] = DisabledAccount) =>
                  /\ task'[l].enforced = "done"
                  /\ accounts' = accounts ]_vars

\* C18: for an exceeded delete rule the violation row is in the table before
\* delete_user is called.
C18_ViolationBeforeDelete ==
    \A l \in Loops :
        (T(l).item.entry.action = "delete"
            /\ (T(l).pc = "action" \/ "delete" \in Range(T(l).hist))) =>
                /\ T(l).hist # <<>>
                /\ T(l).hist[1] = "violation"
                /\ \E i \in 1..Len(violations) :
                      /\ violations[i].username = T(l).cur
                      /\ violations[i].limit_type = T(l).item.limit_type
                      /\ violations[i].action_taken = "delete"

\* C18 witness: delete_user has been called for an exceeded delete rule
C18_Witness ==
    \E l \in Loops :
        /\ T(l).pc = "notify"
        /\ T(l).item.entry.action = "delete"
        /\ "delete" \in Range(T(l).hist)

\* C19: when the violation write fails for an exceeded rule, the rule's action
\* and its notification dispatch are still attempted.
C19_WriteFailureDoesNotBlock ==
    \A l \in Loops :
        (T(l).pc = "user_end" /\ "violation_failed" \in Range(T(l).hist)) =>
            /\ T(l).item.entry.action \in Range(T(l).hist)
            /\ "dispatch" \in Range(T(l).hist)

\* C20: an error of the action method is caught: the dispatch for the rule
\* runs, the user's remaining rules are handled, and nothing reaches the
\* except of check_all_users.
C20_EnforcementErrorCaught ==
    \A l \in Loops :
        /\ T(l).enforced = "error" => ("dispatch" \in Range(T(l).hist) /\ ~T(l).exc)
        /\ (T(l).pc = "user_end" /\ ~T(l).exc) =>
              \A i \in 1..Len(T(l).results) :
                  T(l).results[i].entry.exceeded =>
                      Handled(l, T(l).results[i].limit_type,
                              <<"violation", T(l).results[i].entry.action, "dispatch">>)

\* C20 witness: a user with two exceeded rules has been processed to the end,
\* the action method of the first rule having ended in an error
C20_Witness ==
    \E l \in Loops :
        /\ T(l).pc = "user_end"
        /\ ~T(l).exc
        /\ Len(T(l).done) = 2
        /\ T(l).done[1].enforced = "error"

\* C21: the action of an exceeded notify or throttle rule leaves every account
\* as it was and ends without an error, the dispatch following.
C21_NotifyThrottleLeaveAccount ==
    [][ \A l \in Loops :
          (take_action(l) /\ T(l).item.entry.action \in {"notify", "throttle"}) =>
              /\ accounts' = accounts
              /\ task'[l].enforced # "error"
              /\ task'[l].pc = "notify" ]_vars

\* C21 witness: the action of an exceeded throttle rule has run
C21_Witness ==
    \E l \in Loops :
        /\ T(l).pc = "notify"
        /\ T(l).mode = "violation"
        /\ T(l).item.entry.action = "throttle"
        /\ T(l).enforced = "done"
        /\ accounts[T(l).cur] = ActiveAccount

\* C22: every violation row the monitor writes carries the username, the kind,
\* the observed usage, the limit_value of the rule and the rule's action.
C22_ViolationCarriesRule ==
    \A i \in 1..Len(violations) :
        \E j \in 1..Len(rules) :
            /\ rules[j].enabled
            /\ rules[j].username = violations[i].username
            /\ rules[j].limit_type = violations[i].limit_type
            /\ rules[j].action = violations[i].action_taken
            /\ rules[j].limit_value = violations[i].limit_value
            /\ violations[i].current_value >= rules[j].limit_value

UserRows(rs, username, kinds) ==
    SelectSeq(rs, LAMBDA r : r.username = username /\ r.limit_type \in kinds)

OtherRows(rs, username) ==
    SelectSeq(rs, LAMBDA r : r.username # username)

TemplateKinds(template) ==
    { template.rules[i].limit_type : i \in 1..Len(template.rules) }

\* C24: applying a template leaves the user with exactly the template's rule
\* for every kind of the template, and every rule of another kind and every
\* rule of another user as it was.
C24_TemplateReplacesByKind ==
    [][ \A username \in Users, template_id \in TemplateIds :
          (ApplyTemplate(username, template_id) /\ GetTemplate(template_id) # NoTemplate) =>
              LET template == GetTemplate(template_id)
                  kinds == TemplateKinds(template)
              IN  /\ \A k \in 1..Len(template.rules) :
                        LET rows == UserRows(rules', username, {template.rules[k].limit_type})
                        IN  /\ Len(rows) = 1
                            /\ rows[1].limit_value = template.rules[k].value
                            /\ rows[1].action = template.rules[k].action
                  /\ UserRows(rules', username, LimitTypes \ kinds)
                        = UserRows(rules, username, LimitTypes \ kinds)
                  /\ OtherRows(rules', username) = OtherRows(rules, username) ]_vars

C26_TemplateAtomic ==
    [][ \A username \in Users, template_id \in TemplateIds :
          ApplyTemplate(username, template_id) =>
              (opOut'.ret = "True" \/ rules' = rules) ]_vars

\* C27: a violation row is changed only by resolving it: its other fields stay,
\* resolved never goes back to false, no row disappears, and resolving an id
\* that is not in the table returns False and changes nothing.
C27_ViolationOnlyResolved ==
    [][ /\ Len(violations') >= Len(violations)
        /\ \A i \in 1..Len(violations) :
              /\ [violations'[i] EXCEPT !.resolved = FALSE]
                    = [violations[i] EXCEPT !.resolved = FALSE]
              /\ violations[i].resolved => violations'[i].resolved
        /\ \A violation_id \in ViolationIds :
              (ResolveViolation(violation_id) /\ violation_id \notin 1..Len(violations)) =>
                  (violations' = violations /\ opOut'.ret = "False") ]_vars

\* C27 witness: a resolved row was resolved again and another row is unresolved
C27_Witness ==
    /\ opOut.op = "resolve_violation"
    /\ opOut.ret = "True"
    /\ \E i, j \in 1..Len(violations) : violations[i].resolved /\ ~violations[j].resolved

\* C28: an on-demand check, of the store function or of the route, never
\* raises: it returns a mapping or a structured failure.
C28_CheckNeverRaises ==
    /\ evalOut.called => ~evalOut.out.raised
    /\ opOut.op = "check_user_limits" =>
          (~opOut.raised /\ opOut.ret \in {"mapping", "http_404"})

\* C29: for an enabled rule with limit_value <= 0 a call that returns reports
\* exceeded if and only if current_value > 0, and percentage 0.
C29_ZeroThreshold ==
    (evalOut.called /\ ~evalOut.out.raised) =>
        \A limit \in EvaluatedRules :
            limit.limit_value <= 0 =>
                /\ Reported(limit)
                /\ ReportedEntry(limit).exceeded <=> CurrentValue(limit) > 0
                /\ ReportedEntry(limit).exceeded =>
                      SamePercentage(ReportedEntry(limit).percentage, [num |-> 0, den |-> 1])

OnlyDisabled(rs, username, limit_type) ==
    /\ \E i \in 1..Len(rs) : rs[i].username = username /\ rs[i].limit_type = limit_type
    /\ \A i \in 1..Len(rs) :
          (rs[i].username = username /\ rs[i].limit_type = limit_type) => ~rs[i].enabled

DisabledRows(rs) == SelectSeq(rs, LAMBDA r : ~r.enabled)

====
